---------------------------- MODULE Spec2Model ----------------------------
(***************************************************************************)
(* The coordinator of the distributed evolution strategy: the proof-of-    *)
(* work ledger (blockchain.py), the request handlers of the Flask server   *)
(* (server.py) and the outer solver they drive (distributed_lmmaes.py).    *)
(*                                                                         *)
(* Python objects are modelled by value plus the identity that matters:    *)
(* every Python list that a block or the pending pool refers to lives in   *)
(* the heap `lists` and is referred to by its position there, so that two  *)
(* references to one list see each other's appends; every accepted Option  *)
(* carries the identity `uid` of its object, which no serialisation emits. *)
(* Real numbers are fixed-point integers, vectors and matrices have one    *)
(* component.                                                              *)
(***************************************************************************)
EXTENDS Integers, Sequences, FiniteSets, TLC

VARIABLES
    chain,            \* status['blockchain'].chain: the list of Block objects
    current_options,  \* status['blockchain'].current_options: a reference into lists
    global_options,   \* status['blockchain'].global_options: c_s and sigma per island
    lists,            \* the heap of Python lists of Option objects
    status,           \* status['s']: "receiving" or "stop"
    solver,           \* status['solver']: the DistributedES object
    clock,            \* time.time()
    last,             \* the last request handled and its outcome
    n_accepted,       \* proposals accepted so far (allocates uid)
    n_external,       \* external block submissions so far
    renew_log,        \* the uids handed to each renew_factors call, in order
    iterate_runs,     \* completed calls of iterate
    round_subs,       \* uid and runtime of the proposals accepted since the last
                      \* completed aggregation
    threads,          \* the request handlers in flight (threaded=True)
    cand,             \* a chain handed to check_chain_validity, served by a
                      \* peer, or kept by a worker as its local copy
    cand_result,      \* what the last call on that chain returned
    inner_nodes,      \* status['blockchain'].inner_nodes: the registered peers
    snapshots         \* the parameter sets get_options and iterate have returned

vars == <<chain, current_options, global_options, lists, status, solver, clock,
          last, n_accepted, n_external, renew_log, iterate_runs, round_subs,
          threads, cand, cand_result, inner_nodes, snapshots>>

---------------------------------------------------------------------------
(* Configuration.  server.py sets n_islands = 10, island_max_runtime = 180 *)
(* and max_runtime = 3600; the model keeps their roles and scales them.    *)

\* options['n_islands']: the quorum and the number of GlobalState rows.
n_islands == 5

\* Blockchain.difficulty
difficulty == 1

\* options['island_max_runtime']
island_max_runtime == 2

\* options['max_runtime'] less the (island_max_runtime + 60) that __init__ subtracts
max_runtime == 3

\* options['fitness_threshold'] (1e-10) on the integer-valued fitness
fitness_threshold == 0

\* options['max_function_evaluations'] (np.Inf): above every reachable count
max_function_evaluations == 1000000

\* requests the model lets the coordinator accept
MaxSubmits == n_islands + 1

\* external block submissions the model lets the coordinator receive
MaxExternal == 1

\* calls of renew_factors the model lets the coordinator make
MaxRenews == 2

Islands == 0 .. (n_islands - 1)

Min(a, b) == IF a < b THEN a ELSE b
Max(a, b) == IF a > b THEN a ELSE b
Last(q) == q[Len(q)]

---------------------------------------------------------------------------
(* Hashing.  A digest is the tuple of the fields that were serialised, so  *)
(* distinct contents have distinct digests; the literal string "0" is the  *)
(* empty tuple.  The run of leading '0' characters of a digest is a fixed  *)
(* function of the content, which the nonce changes.                       *)

ZeroLiteral == << >>

\* a Block object on which the attribute hash is not set
NoAttr == << "no attribute" >>

\* MyEncoder.default on an Option: its __dict__, which holds no identity
Dict(o) == [node_address |-> o.node_address, s |-> o.s, tm |-> o.tm,
            c_s |-> o.c_s, sigma |-> o.sigma, x |-> o.x, y |-> o.y]

\* json.dumps of a list of Options
Payload(l) == [i \in 1 .. Len(l) |-> Dict(l[i])]

\* Block.compute_hash: every attribute of the object is serialised, the
\* attribute hash too when it is set
compute_hash(block, heap) ==
    IF block.hash = NoAttr
    THEN << block.index, Payload(heap[block.options]), block.timestamp,
            block.previous_hash, block.nonce >>
    ELSE << block.index, Payload(heap[block.options]), block.timestamp,
            block.previous_hash, block.nonce, block.hash >>

\* the number of leading '0' characters of a hash string
RECURSIVE LeadingZeros(_)
LeadingZeros(h) ==
    IF h = ZeroLiteral THEN 1
    ELSE IF Len(h) < 5 THEN 0
    ELSE LET mix == (h[1] + Len(h[2]) + h[3] + h[5]
                     + LeadingZeros(h[4]) + (Len(h) - 5)) % 2
         IN  IF mix = 0 THEN 1 ELSE 0

\* block_hash.startswith('0' * Blockchain.difficulty)
StartsWithZeros(h) == LeadingZeros(h) >= difficulty

\* Block(index, options, timestamp, previous_hash, nonce)
Block(index, options, timestamp, previous_hash, nonce) ==
    [index |-> index, options |-> options, timestamp |-> timestamp,
     previous_hash |-> previous_hash, nonce |-> nonce, hash |-> NoAttr]

\* Blockchain.proof_of_work: the first nonce from 0 whose hash has the prefix
RECURSIVE SearchNonce(_, _, _)
SearchNonce(block, heap, n) ==
    IF StartsWithZeros(compute_hash([block EXCEPT !.nonce = n], heap))
    THEN n
    ELSE SearchNonce(block, heap, n + 1)

proof_of_work(block, heap) ==
    LET n == SearchNonce(block, heap, 0)
    IN  [block |-> [block EXCEPT !.nonce = n],
         proof |-> compute_hash([block EXCEPT !.nonce = n], heap)]

\* is_valid_proof without the comparison with the recomputed hash
is_valid_proof_PrefixOnly(block, block_hash, heap) ==
    StartsWithZeros(block_hash)

\* Blockchain.is_valid_proof
is_valid_proof(block, block_hash, heap) ==
    StartsWithZeros(block_hash) /\ block_hash = compute_hash(block, heap)

\* add_block without the comparison of previous_hash with the last block's hash
add_block_NoLinkCheck(ch, heap, block, proof) ==
    IF ~ is_valid_proof(block, proof, heap)
    THEN [ret |-> "False", chain |-> ch]
    ELSE [ret |-> "True", chain |-> Append(ch, [block EXCEPT !.hash = proof])]

\* Blockchain.add_block: ret is "True", "False", or "IndexError" when
\* last_block() is evaluated on an empty chain
add_block(ch, heap, block, proof) ==
    IF block.index # 0 /\ ch = << >>
    THEN [ret |-> "IndexError", chain |-> ch]
    ELSE IF block.index # 0 /\ Last(ch).hash # block.previous_hash
    THEN [ret |-> "False", chain |-> ch]
    ELSE IF ~ is_valid_proof(block, proof, heap)
    THEN [ret |-> "False", chain |-> ch]
    ELSE [ret |-> "True", chain |-> Append(ch, [block EXCEPT !.hash = proof])]

\* Blockchain.create_genesis_block
\* create_genesis_block sealing the pending list itself in place of a list of
\* its own
create_genesis_block_SharedPayload(ch, heap, options, now) ==
    LET pw == proof_of_work(Block(0, 1, now, ZeroLiteral, 0), heap)
    IN  Append(ch, [pw.block EXCEPT !.hash = pw.proof])

create_genesis_block(ch, heap, options, now) ==
    LET pw == proof_of_work(Block(0, options, now, ZeroLiteral, 0), heap)
    IN  Append(ch, [pw.block EXCEPT !.hash = pw.proof])

\* mine that rebinds the pool before it builds the block
mine_RebindsFirst(ch, heap, cur, now) ==
    IF heap[cur] = << >>
    THEN [ret |-> FALSE, chain |-> ch, lists |-> heap, current_options |-> cur]
    ELSE LET last_block == Last(ch)
             heap2      == Append(heap, << >>)
             new_block  == Block(last_block.index + 1, Len(heap2), now,
                                 last_block.hash, 0)
             pw         == proof_of_work(new_block, heap2)
         IN  [ret |-> TRUE,
              chain |-> add_block(ch, heap2, pw.block, pw.proof).chain,
              lists |-> heap2,
              current_options |-> Len(heap2)]

\* Blockchain.mine: the block takes the pending list itself and the pool is
\* rebound to a fresh list; the outcome of add_block is not looked at
mine(ch, heap, cur, now) ==
    IF heap[cur] = << >>
    THEN [ret |-> FALSE, chain |-> ch, lists |-> heap, current_options |-> cur]
    ELSE LET last_block == Last(ch)
             new_block  == Block(last_block.index + 1, cur, now,
                                 last_block.hash, 0)
             heap2      == Append(heap, << >>)
             pw         == proof_of_work(new_block, heap2)
         IN  [ret |-> TRUE,
              chain |-> add_block(ch, heap2, pw.block, pw.proof).chain,
              lists |-> heap2,
              current_options |-> Len(heap2)]

---------------------------------------------------------------------------
(* The outer solver, DistributedES.  Step sizes are in hundredths, learning *)
(* rates in thousandths, recombination weights in hundredths; a product is  *)
(* truncated to the unit.                                                    *)

\* int(np.maximum(5, self.n_islands / 5))
n_better_islands == Max(5, n_islands \div 5)

\* self._dw for five elite islands, (w_base - w) / (5 w_base - sum(w)), in hundredths
Dw == << 46, 27, 16, 9, 2 >>

\* self.sigma_scale, in halves
sigma_scale == << 1, 2, 3, 4, 10, 20, 40 >>

\* self.learning_ratios = np.linspace(0, 1, 11), in thousandths
learning_ratios == [k \in 1 .. 11 |-> 100 * (k - 1)]

\* self.sl: the pairs [i, j] for i in sigma_scale, j in learning_ratios
sl == [q \in 1 .. 77 |-> << sigma_scale[((q - 1) \div 11) + 1],
                           learning_ratios[((q - 1) % 11) + 1] >>]

\* self.n_low_dim
n_low_dim == 4 * Len(sigma_scale) + 2 * Len(learning_ratios)

\* the fitness function (cf.step) on one integer component
Fitness(x) == x * x

\* Optimizer._evaluate_fitness: counts the evaluation and keeps the best so far
evaluate_fitness(sol, x) ==
    LET y == Fitness(x)
        counted == [sol EXCEPT !.n_function_evaluations = @ + 1]
    IN  IF y < sol.best_so_far_y
        THEN [counted EXCEPT !.best_so_far_x = x, !.best_so_far_y = y]
        ELSE counted

\* the rows the loop of __init__ evaluates, in order
RECURSIVE EvaluateRows(_, _, _)
EvaluateRows(sol, xs, i) ==
    IF i >= n_islands THEN sol
    ELSE EvaluateRows(evaluate_fitness(sol, xs[i]), xs, i + 1)

\* DistributedES.__init__ after ES.__init__: island i starts from its own sample
solver_init ==
    LET xs == [i \in Islands |-> i + 1]
        blank == [best_x |-> xs,
                  best_y |-> [i \in Islands |-> Fitness(xs[i])],
                  s |-> [i \in Islands |-> 0],
                  tm |-> [i \in Islands |-> 0],
                  c_s |-> [i \in Islands |-> 26],
                  sigmas |-> [i \in Islands |-> 30],
                  is_first_generation |-> TRUE,
                  is_maximization |-> FALSE,
                  runtime |-> 0,
                  time_function_evaluations |-> 0,
                  n_function_evaluations |-> 0,
                  best_so_far_x |-> xs[0],
                  best_so_far_y |-> Fitness(xs[0]) + 1,
                  termination_signal |-> "NO_TERMINATION"]
    IN  EvaluateRows(blank, xs, 0)

\* DistributedES.get_options and the results of iterate: x, s and tm are views
\* of the solver's rows, c_s and sigma are copied
get_options(sol) ==
    [p \in Islands |-> [c_s |-> sol.c_s[p], sigma |-> sol.sigmas[p]]]

\* what a reader of global_options gets: the views read the rows as they are
published(gopts, sol) ==
    [p \in Islands |-> [x |-> sol.best_x[p], s |-> sol.s[p], tm |-> sol.tm[p],
                        c_s |-> gopts[p].c_s, sigma |-> gopts[p].sigma]]

\* one pass of the loop of renew_factors, for the option at position i
renew_row(sol, i, o) ==
    LET written == [sol EXCEPT !.best_y[i] = o.y, !.best_x[i] = o.x]
        scored  == evaluate_fitness(written, o.x)
    IN  [scored EXCEPT !.s[i] = o.s, !.tm[i] = o.tm, !.c_s[i] = o.c_s,
                       !.sigmas[i] = o.sigma]

RECURSIVE RenewRows(_, _, _)
RenewRows(sol, opts, i) ==
    IF i >= Len(opts) \/ i >= n_islands THEN sol
    ELSE RenewRows(renew_row(sol, i, opts[i + 1]), opts, i + 1)

\* DistributedES.renew_factors: option i goes to row i; a row past the last
\* island raises IndexError after the rows before it were written
renew_factors(sol, factor_options) ==
    [solver |-> RenewRows(sol, factor_options, 0),
     raised |-> Len(factor_options) > n_islands]

\* the position of island j in np.argsort(self.best_y), ties by island number
RankOf(sol, j) ==
    Cardinality({i \in Islands :
                   \/ sol.best_y[i] < sol.best_y[j]
                   \/ sol.best_y[i] = sol.best_y[j] /\ i < j})

\* order[k]
OrderAt(sol, k) == CHOOSE j \in Islands : RankOf(sol, j) = k

\* sum over k < n_better_islands of _dw[k] * row[order[k]]
RECURSIVE WeightedSum(_, _, _)
WeightedSum(sol, row, k) ==
    IF k >= n_better_islands THEN 0
    ELSE Dw[k + 1] * row[OrderAt(sol, k)] + WeightedSum(sol, row, k + 1)

\* the recombination with the weights of the elite islands in reverse
Recombined_WeightsReversed(sol, row) ==
    ( Dw[5] * row[OrderAt(sol, 0)] + Dw[4] * row[OrderAt(sol, 1)]
      + Dw[3] * row[OrderAt(sol, 2)] + Dw[2] * row[OrderAt(sol, 3)]
      + Dw[1] * row[OrderAt(sol, 4)] ) \div 100

Recombined(sol, row) == WeightedSum(sol, row, 0) \div 100

\* the pass of the assignment loop with the islands visited from the best:
\* order[p] in place of order[-(p + 1)], and the recombined values alone
assign_pass_BestFirst(sol, loc) ==
    LET index == loc.order[loc.p]
    IN  [solver |-> [sol EXCEPT !.best_x[index] = loc.w_x, !.s[index] = loc.w_s,
                                !.tm[index] = loc.w_tm, !.c_s[index] = loc.w_c_s,
                                !.sigmas[index] = loc.w_sigma],
         loc |-> [loc EXCEPT !.p = @ + 1]]

\* one pass of the assignment loop of iterate, at position loc.p: the island
\* order[-(p + 1)] gets the recombined values, then the branch of the schedule
\* that p selects overrides some of them; index_1 .. index_6 are the counters
\* of the branches
assign_pass(sol, loc) ==
    LET index == loc.order[loc.n_islands - (loc.p + 1)]
        base  == [sol EXCEPT !.best_x[index] = loc.w_x, !.s[index] = loc.w_s,
                             !.tm[index] = loc.w_tm, !.c_s[index] = loc.w_c_s,
                             !.sigmas[index] = loc.w_sigma]
        step  == [loc EXCEPT !.p = @ + 1]
        pp    == loc.p - n_low_dim
    IN  IF loc.p < Len(sigma_scale)
        THEN [solver |-> [base EXCEPT !.sigmas[index] =
                            (loc.w_sigma * sigma_scale[loc.index_1 + 1]) \div 2],
              loc |-> [step EXCEPT !.index_1 = @ + 1]]
        ELSE IF loc.p < 2 * Len(sigma_scale)
        THEN [solver |-> [base EXCEPT !.sigmas[index] =
                            (loc.w_sigma * sigma_scale[loc.index_2 + 1]) \div 2],
              loc |-> [step EXCEPT !.index_2 = @ + 1]]
        ELSE IF loc.p < 3 * Len(sigma_scale)
        THEN [solver |-> [base EXCEPT !.tm[index] = 0, !.sigmas[index] =
                            (loc.w_sigma * sigma_scale[loc.index_3 + 1]) \div 2],
              loc |-> [step EXCEPT !.index_3 = @ + 1]]
        ELSE IF loc.p < 4 * Len(sigma_scale)
        THEN [solver |-> [base EXCEPT !.tm[index] = 0, !.sigmas[index] =
                            (loc.w_sigma * sigma_scale[loc.index_4 + 1]) \div 2],
              loc |-> [step EXCEPT !.index_4 = @ + 1]]
        ELSE IF loc.p < 4 * Len(sigma_scale) + Len(learning_ratios)
        THEN [solver |-> [base EXCEPT !.c_s[index] =
                            learning_ratios[loc.index_5 + 1]],
              loc |-> [step EXCEPT !.index_5 = @ + 1]]
        ELSE IF loc.p < 4 * Len(sigma_scale) + 2 * Len(learning_ratios)
        THEN [solver |-> [base EXCEPT !.c_s[index] =
                            learning_ratios[loc.index_6 + 1]],
              loc |-> [step EXCEPT !.index_6 = @ + 1]]
        ELSE IF loc.p < n_low_dim + Len(sl)
        THEN [solver |-> [base EXCEPT !.sigmas[index] =
                            (loc.w_sigma * sl[pp + 1][1]) \div 2,
                                      !.c_s[index] = sl[pp + 1][2]],
              loc |-> step]
        ELSE [solver |-> base, loc |-> step]

\* for p in range(self.n_islands)
RECURSIVE AssignRows(_, _)
AssignRows(sol, loc) ==
    IF loc.p >= loc.n_islands THEN sol
    ELSE AssignRows(assign_pass(sol, loc).solver, assign_pass(sol, loc).loc)

\* the locals of iterate when the assignment loop starts
IterateLocals(sol) ==
    [p |-> 0, n_islands |-> n_islands,
     order |-> [k \in Islands |-> OrderAt(sol, k)],
     index_1 |-> 0, index_2 |-> 0, index_3 |-> 0, index_4 |-> 0, index_5 |-> 0,
     index_6 |-> 0,
     w_x |-> Recombined(sol, sol.best_x), w_s |-> Recombined(sol, sol.s),
     w_tm |-> Recombined(sol, sol.tm), w_c_s |-> Recombined(sol, sol.c_s),
     w_sigma |-> Recombined(sol, sol.sigmas)]

\* DistributedES.iterate: order[k] for k past the last island raises IndexError
\* before any row is written
iterate(sol) ==
    IF n_better_islands > n_islands
    THEN [solver |-> sol, raised |-> TRUE]
    ELSE [solver |-> AssignRows(sol, IterateLocals(sol)), raised |-> FALSE]

\* _check_terminations with the test of the runtime before that of the
\* evaluations
check_terminations_RuntimeFirst(sol) ==
    LET signal ==
          IF sol.runtime >= max_runtime THEN "MAX_RUNTIME"
          ELSE IF sol.n_function_evaluations >= max_function_evaluations
          THEN "MAX_FUNCTION_EVALUATIONS"
          ELSE IF ~ sol.is_maximization /\ sol.best_so_far_y <= fitness_threshold
          THEN "FITNESS_THRESHOLD"
          ELSE IF sol.is_maximization /\ sol.best_so_far_y >= fitness_threshold
          THEN "FITNESS_THRESHOLD"
          ELSE "NO_TERMINATION"
    IN  [solver |-> [sol EXCEPT !.termination_signal = signal],
         stop   |-> signal # "NO_TERMINATION"]

\* _check_terminations that records the reason and returns False
check_terminations_ReturnsFalse(sol) ==
    LET signal ==
          IF sol.n_function_evaluations >= max_function_evaluations
          THEN "MAX_FUNCTION_EVALUATIONS"
          ELSE IF sol.runtime >= max_runtime THEN "MAX_RUNTIME"
          ELSE IF ~ sol.is_maximization /\ sol.best_so_far_y <= fitness_threshold
          THEN "FITNESS_THRESHOLD"
          ELSE IF sol.is_maximization /\ sol.best_so_far_y >= fitness_threshold
          THEN "FITNESS_THRESHOLD"
          ELSE "NO_TERMINATION"
    IN  [solver |-> [sol EXCEPT !.termination_signal = signal],
         stop   |-> FALSE]

\* DistributedES._check_terminations
check_terminations(sol) ==
    LET signal ==
          IF sol.n_function_evaluations >= max_function_evaluations
          THEN "MAX_FUNCTION_EVALUATIONS"
          ELSE IF sol.runtime >= max_runtime THEN "MAX_RUNTIME"
          ELSE IF ~ sol.is_maximization /\ sol.best_so_far_y <= fitness_threshold
          THEN "FITNESS_THRESHOLD"
          ELSE IF sol.is_maximization /\ sol.best_so_far_y >= fitness_threshold
          THEN "FITNESS_THRESHOLD"
          ELSE "NO_TERMINATION"
    IN  [solver |-> [sol EXCEPT !.termination_signal = signal],
         stop   |-> signal # "NO_TERMINATION"]

---------------------------------------------------------------------------
(* The coordinator, one request at a time.                                  *)

NoThreads == << >>

\* what the workers and peers send
NodeIds == {0}
Xs == {1}
Runtimes == {island_max_runtime - 1, island_max_runtime}

\* the body of POST /new_option: a proposal, or a body that lacks the key
\* "option" or one of the proposal's fields
ProposalBodies ==
    [kind : {"proposal"}, node_address : NodeIds, x : Xs, runtime : Runtimes]
    \cup [kind : {"no option", "no field", "no runtime"},
          node_address : {0}, x : {1}, runtime : {island_max_runtime}]

\* bl.Option(...) as new_option builds it; uid is the identity of the object
Option(body, uid) ==
    [uid |-> uid, node_address |-> body.node_address, s |-> 1, tm |-> 1,
     c_s |-> 100, sigma |-> 20, x |-> body.x, y |-> Fitness(body.x)]

Uids(l) == [i \in 1 .. Len(l) |-> l[i].uid]

\* the state after the bootstrap of __main__
Init ==
    /\ lists = << << >>, << >> >>
    /\ current_options = 1
    /\ chain = create_genesis_block(<< >>, << << >>, << >> >>, 2, 0)
    /\ clock = 1
    /\ solver = solver_init
    /\ global_options = get_options(solver_init)
    /\ status = "receiving"
    /\ last = [op |-> "start", ret |-> 0]
    /\ n_accepted = 0
    /\ n_external = 0
    /\ renew_log = << >>
    /\ iterate_runs = 0
    /\ round_subs = << >>
    /\ threads = NoThreads
    /\ cand = << >>
    /\ cand_result = "none"
    /\ inner_nodes = {}
    /\ snapshots = {published(get_options(solver_init), solver_init)}

\* POST /new_option
new_option(body) ==
    /\ IF body.kind = "no option"
       THEN /\ last' = [op |-> "new_option", ret |-> 404, body |-> body]
            /\ UNCHANGED <<chain, current_options, lists, status, solver, clock,
                           n_accepted, round_subs>>
       ELSE IF body.kind # "proposal"
       THEN /\ last' = [op |-> "new_option", ret |-> 500, body |-> body]
            /\ UNCHANGED <<chain, current_options, lists, status, solver, clock,
                           n_accepted, round_subs>>
       ELSE LET option == Option(body, n_accepted + 1)
                timed  == [solver EXCEPT
                             !.time_function_evaluations = @ + body.runtime]
                heap   == [lists EXCEPT ![current_options] = Append(@, option)]
                mined  == mine(chain, heap, current_options, clock)
            IN  /\ n_accepted' = n_accepted + 1
                /\ round_subs' = Append(round_subs, [uid |-> n_accepted + 1,
                                                       runtime |-> body.runtime])
                /\ last' = [op |-> "new_option", ret |-> 201, body |-> body]
                /\ IF body.runtime < island_max_runtime
                   THEN /\ chain' = mined.chain
                        /\ lists' = mined.lists
                        /\ current_options' = mined.current_options
                        /\ clock' = clock + 1
                        /\ solver' = [timed EXCEPT !.best_so_far_x = body.x,
                                                   !.best_so_far_y = Fitness(body.x),
                                                   !.runtime = body.runtime]
                        /\ status' = "stop"
                   ELSE /\ lists' = heap
                        /\ solver' = timed
                        /\ UNCHANGED <<chain, current_options, clock, status>>
    /\ UNCHANGED <<global_options, n_external, renew_log, iterate_runs,
                   threads, cand, cand_result, inner_nodes, snapshots>>

\* the test of renew_global_option with a quorum of one proposal
quorum_reached_AnyPending(pending) == Len(pending) >= 1

\* len(status['blockchain'].current_options) >= status['solver'].n_islands
quorum_reached(pending) == Len(pending) >= n_islands

\* GET /global_option; elapsed is time.time() - temp_time
renew_global_option(elapsed) ==
    LET pending == lists[current_options]
        renewed == renew_factors(solver, pending)
        iterated == iterate(renewed.solver)
        mined   == mine(chain, lists, current_options, clock)
        timed   == [iterated.solver EXCEPT
                      !.runtime = @ + elapsed + island_max_runtime]
        checked == check_terminations(timed)
    IN
    /\ quorum_reached(pending) => Len(renew_log) < MaxRenews
    /\ IF ~ quorum_reached(pending)
       THEN /\ elapsed = 0
            /\ last' = [op |-> "global_option", ret |-> 201,
                        global_options |-> published(global_options, solver)]
            /\ UNCHANGED <<chain, current_options, global_options, lists, status,
                           solver, clock, renew_log, iterate_runs, round_subs,
                           snapshots>>
       ELSE IF renewed.raised \/ iterated.raised
       THEN /\ elapsed = 0
            /\ last' = [op |-> "global_option", ret |-> 500]
            /\ solver' = renewed.solver
            /\ renew_log' = Append(renew_log, Uids(pending))
            /\ UNCHANGED <<chain, current_options, global_options, lists, status,
                           clock, iterate_runs, round_subs, snapshots>>
       ELSE /\ last' = [op |-> "global_option", ret |-> 201,
                        global_options |->
                            published(get_options(iterated.solver),
                                      iterated.solver)]
            /\ renew_log' = Append(renew_log, Uids(pending))
            /\ iterate_runs' = iterate_runs + 1
            /\ round_subs' = << >>
            /\ global_options' = get_options(iterated.solver)
            /\ snapshots' = snapshots \cup
                   {published(get_options(iterated.solver), iterated.solver)}
            /\ chain' = mined.chain
            /\ lists' = mined.lists
            /\ current_options' = mined.current_options
            /\ clock' = clock + 1
            /\ solver' = checked.solver
            /\ status' = IF checked.stop THEN "stop" ELSE status
    /\ UNCHANGED <<n_accepted, n_external, threads, cand, cand_result,
                   inner_nodes>>

\* the bodies of POST /add_block the model sends: a block that claims to be a
\* genesis or the successor of the last block, with a hash that is the block's
\* own, the last block's, or the literal "0"
BlockBodies ==
    LET tail == Last(chain)
    IN  { [has_timestamps |-> TRUE, index |-> i, previous_hash |-> ph,
           nonce |-> n, proof |-> pf] :
            i \in {0, tail.index + 1},
            ph \in {tail.hash, ZeroLiteral},
            n \in {0, 1},
            pf \in {"own", "tail"} }
        \cup { [has_timestamps |-> FALSE, index |-> tail.index + 1,
                previous_hash |-> tail.hash, nonce |-> 0, proof |-> "own"] }

\* POST /add_block: the handler reads the key "timestamps"
verify_and_add_block(body) ==
    LET heap  == Append(lists, << >>)
        block == Block(body.index, Len(heap), 0, body.previous_hash, body.nonce)
        proof == IF body.proof = "own" THEN compute_hash(block, heap)
                 ELSE Last(chain).hash
        added == add_block(chain, heap, block, proof)
    IN
    /\ n_external < MaxExternal
    /\ n_external' = n_external + 1
    /\ IF ~ body.has_timestamps
       THEN /\ last' = [op |-> "add_block", ret |-> 500, block |-> block,
                        proof |-> proof]
            /\ UNCHANGED <<chain, lists>>
       ELSE IF added.ret = "True"
       THEN /\ last' = [op |-> "add_block", ret |-> 201, block |-> block,
                        proof |-> proof]
            /\ chain' = added.chain
            /\ lists' = heap
       ELSE /\ last' = [op |-> "add_block", ret |-> 400, block |-> block,
                        proof |-> proof]
            /\ UNCHANGED <<chain, lists>>
    /\ UNCHANGED <<current_options, global_options, status, solver, clock,
                   n_accepted, renew_log, iterate_runs, round_subs, threads,
                   cand, cand_result, inner_nodes, snapshots>>

Next ==
    \/ \E body \in ProposalBodies : n_accepted < MaxSubmits /\ new_option(body)
    \/ \E elapsed \in {0, 1} : renew_global_option(elapsed)
    \/ \E body \in BlockBodies : verify_and_add_block(body)

Spec == Init /\ [][Next]_vars

---------------------------------------------------------------------------
(* Properties of the ledger and of the rounds, one request at a time.       *)

\* the hash of a block's content, the attribute hash left out
ContentHash(block, heap) == compute_hash([block EXCEPT !.hash = NoAttr], heap)

\* C1: every block of the coordinator's chain other than the first has
\* previous_hash equal to the stored hash of the block before it.
C1_ChainLinked ==
    \A i \in 2 .. Len(chain) : chain[i].previous_hash = chain[i - 1].hash

\* C2: every block's stored hash is the hash recomputed over its other fields
\* and starts with at least `difficulty` characters '0'.
C2_HashesValid ==
    \A i \in 1 .. Len(chain) :
        /\ chain[i].hash = ContentHash(chain[i], lists)
        /\ LeadingZeros(chain[i].hash) >= difficulty

\* a chain that holds the genesis block, a mined block with proposals in it
\* and a block that came in through POST /add_block
C2_Witness ==
    /\ \E i \in 2 .. Len(chain) : lists[chain[i].options] # << >>
    /\ \E i \in 2 .. Len(chain) : lists[chain[i].options] = << >>

\* C3: add_block(block, claimedHash) fails and leaves the chain as it was when
\* (a) block.index # 0 and block.previous_hash differs from the last block's
\* hash, or (b) claimedHash lacks the prefix of `difficulty` zeros, or (c)
\* claimedHash differs from the recomputed content hash; in every other case it
\* stores claimedHash as the block's hash, appends the block and succeeds.
C3_AddBlockContract ==
    [][ (n_external' = n_external + 1 /\ last'.ret # 500) =>
          LET block == last'.block
              claimedHash == last'.proof
              heap == Append(lists, << >>)
              rejects ==
                \/ block.index # 0 /\ block.previous_hash # Last(chain).hash
                \/ LeadingZeros(claimedHash) < difficulty
                \/ claimedHash # ContentHash(block, heap)
          IN  IF rejects
              THEN last'.ret = 400 /\ chain' = chain
              ELSE /\ last'.ret = 201
                   /\ chain' = Append(chain, [block EXCEPT !.hash = claimedHash])
      ]_vars

\* add_block has appended a block that is not a genesis
C3_Witness ==
    /\ last.op = "add_block" /\ last.ret = 201
    /\ last.block.index # 0
    /\ Last(chain) = [last.block EXCEPT !.hash = last.proof]

\* the pull of the global parameters that follows N submissions of a round
\* aggregates once and seals one block whose payload is those N proposals
RoundCloses ==
    last'.op = "global_option" =>
        /\ iterate_runs' = iterate_runs + 1
        /\ Len(renew_log') = Len(renew_log) + 1
        /\ Len(chain') = Len(chain) + 1
        /\ Uids(lists'[Last(chain').options]) = Uids(round_subs)
        /\ lists'[current_options'] = << >>

SealCount(uid) ==
    Cardinality({i \in 1 .. Len(chain) :
                   \E k \in 1 .. Len(lists[chain[i].options]) :
                       lists[chain[i].options][k].uid = uid})

\* how many calls of renew_factors were handed the proposal uid
RenewCount(uid) ==
    Cardinality({i \in 1 .. Len(renew_log) :
                   \E k \in 1 .. Len(renew_log[i]) : renew_log[i][k] = uid})

IsPending(uid) ==
    \E k \in 1 .. Len(lists[current_options]) :
        lists[current_options][k].uid = uid

\* C7: every accepted proposal is either still pending, aggregated by no call
\* and sealed in no block, or it left the pool, was handed to exactly one
\* renew_factors call and is in the payload of exactly one block.
C7_ConsumedAndSealedOnce ==
    \A uid \in 1 .. n_accepted :
        IF IsPending(uid)
        THEN RenewCount(uid) = 0 /\ SealCount(uid) = 0
        ELSE RenewCount(uid) = 1 /\ SealCount(uid) = 1

\* C8: once the state is 'stop', no submission and no pull makes the chain
\* longer.
C8_NoBlockAfterStop ==
    [][ (status = "stop" /\ last'.op \in {"new_option", "global_option"})
        => Len(chain') = Len(chain) ]_vars

---------------------------------------------------------------------------
(* Chain validation, on chains of any content.                              *)

\* the longest chain handed to check_chain_validity
MaxCand == 2

\* check_chain_validity without the proof check of each block
RECURSIVE ValidateFrom_LinkOnly(_, _, _, _)
ValidateFrom_LinkOnly(ch, heap, i, previous_hash) ==
    IF i > Len(ch) THEN [result |-> "True", chain |-> ch]
    ELSE IF ch[i].hash = NoAttr THEN [result |-> "AttributeError", chain |-> ch]
    ELSE IF previous_hash # ch[i].previous_hash
    THEN [result |-> "False", chain |-> [ch EXCEPT ![i].hash = NoAttr]]
    ELSE ValidateFrom_LinkOnly(ch, heap, i + 1, ch[i].hash)

\* the loop of check_chain_validity from block i on: the attribute hash is
\* deleted, checked, and set again only when the block passes
RECURSIVE ValidateFrom(_, _, _, _)
ValidateFrom(ch, heap, i, previous_hash) ==
    IF i > Len(ch) THEN [result |-> "True", chain |-> ch]
    ELSE IF ch[i].hash = NoAttr THEN [result |-> "AttributeError", chain |-> ch]
    ELSE LET block_hash == ch[i].hash
             detached   == [ch[i] EXCEPT !.hash = NoAttr]
         IN  IF \/ ~ is_valid_proof(detached, block_hash, heap)
                \/ previous_hash # ch[i].previous_hash
             THEN [result |-> "False", chain |-> [ch EXCEPT ![i] = detached]]
             ELSE ValidateFrom(ch, heap, i + 1, block_hash)

\* check_chain_validity that starts from the first block's own previous_hash
check_chain_validity_FromFirst(ch, heap) ==
    ValidateFrom(ch, heap, 1, IF ch = << >> THEN ZeroLiteral ELSE ch[1].previous_hash)

\* Blockchain.check_chain_validity
check_chain_validity(ch, heap) == ValidateFrom(ch, heap, 1, ZeroLiteral)

\* the lists the blocks of a candidate chain refer to: an empty payload and a
\* payload of one proposal
CandLists == {2, 3}

InitValidate ==
    /\ lists = << << >>, << >>,
                  << Option([node_address |-> 0, x |-> 1], 1) >> >>
    /\ current_options = 1
    /\ chain = create_genesis_block(<< >>, << << >>, << >> >>, 2, 0)
    /\ clock = 1
    /\ solver = solver_init
    /\ global_options = get_options(solver_init)
    /\ status = "receiving"
    /\ last = [op |-> "start", ret |-> 0]
    /\ n_accepted = 0
    /\ n_external = 0
    /\ renew_log = << >>
    /\ iterate_runs = 0
    /\ round_subs = << >>
    /\ threads = NoThreads
    /\ cand = << >>
    /\ cand_result = "none"
    /\ inner_nodes = {}
    /\ snapshots = {published(get_options(solver_init), solver_init)}

ledger_vars == <<chain, current_options, global_options, lists, status, solver,
                 clock, last, n_accepted, n_external, renew_log, iterate_runs,
                 round_subs, threads, inner_nodes, snapshots>>

ledger_vars_but_threads ==
    <<chain, current_options, global_options, lists, status, solver, clock,
      last, n_accepted, n_external, renew_log, iterate_runs, round_subs,
      inner_nodes, snapshots>>

\* the hashes a block of a candidate chain may name or claim: the literal
\* "0", the hash of the coordinator's genesis block and those of the candidate
KnownHashes ==
    {ZeroLiteral} \cup (IF chain = << >> THEN {} ELSE {chain[1].hash})
                  \cup {cand[i].hash : i \in 1 .. Len(cand)}
                  \cup {ContentHash(cand[i], lists) : i \in 1 .. Len(cand)}

\* a peer puts one more block on the chain it will offer
cand_append(index, options, previous_hash, nonce, own_hash) ==
    LET block == Block(index, options, 0, previous_hash, nonce)
    IN  /\ Len(cand) < MaxCand
        /\ cand' = Append(cand, [block EXCEPT !.hash =
                            IF own_hash THEN compute_hash(block, lists)
                            ELSE ZeroLiteral])
        /\ cand_result' = "none"
        /\ UNCHANGED ledger_vars

\* one field of one block of a chain that passed is changed to another value
cand_tamper(i, field, value) ==
    /\ cand_result = "True"
    /\ cand[i][field] # value
    /\ cand' = [cand EXCEPT ![i][field] = value]
    /\ cand_result' = "tampered"
    /\ UNCHANGED ledger_vars

\* check_chain_validity(cand)
cand_validate ==
    LET checked == check_chain_validity(cand, lists)
    IN  /\ cand_result \in {"none", "tampered"}
        /\ cand # << >>
        /\ cand' = checked.chain
        /\ cand_result' = checked.result
        /\ UNCHANGED ledger_vars

NextValidate ==
    \/ \E index \in {Len(cand)}, options \in CandLists,
          previous_hash \in KnownHashes, nonce \in {0, 1}, own_hash \in BOOLEAN :
          cand_append(index, options, previous_hash, nonce, own_hash)
    \/ \E i \in 1 .. Len(cand) :
          \/ \E v \in {0, 1, 2} : cand_tamper(i, "index", v)
          \/ \E v \in CandLists : cand_tamper(i, "options", v)
          \/ \E v \in {0, 1} : cand_tamper(i, "timestamp", v)
          \/ \E v \in KnownHashes : cand_tamper(i, "previous_hash", v)
          \/ \E v \in {0, 1, 2} : cand_tamper(i, "nonce", v)
          \/ \E v \in KnownHashes : cand_tamper(i, "hash", v)
    \/ cand_validate

SpecValidate == InitValidate /\ [][NextValidate]_vars

\* every block's stored hash recomputes from its content
AllRecompute(ch) ==
    \A i \in 1 .. Len(ch) :
        ch[i].hash # NoAttr /\ ch[i].hash = ContentHash(ch[i], lists)

\* every block after the first names the stored hash of the block before it
AllLinked(ch) ==
    \A i \in 2 .. Len(ch) : ch[i].previous_hash = ch[i - 1].hash

\* C9 as stated: check_chain_validity succeeds if and only if every stored
\* hash recomputes from the block's content and every previous_hash matches
\* the prior block's stored hash.
C9_RecomputeAndLink ==
    [][ (cand_result \in {"none", "tampered"} /\ cand_result' \notin {"none", "tampered"})
        => (cand_result' = "True" <=> (AllRecompute(cand) /\ AllLinked(cand))) ]_vars

\* C9 as amended: check_chain_validity succeeds if and only if every stored
\* hash starts with `difficulty` zeros and recomputes from the block's content,
\* the first block's previous_hash is "0" and every later previous_hash is the
\* prior block's stored hash.
C9_ProofRecomputeAndLink ==
    [][ (cand_result \in {"none", "tampered"} /\ cand_result' \notin {"none", "tampered"})
        => (cand_result' = "True" <=>
              /\ AllRecompute(cand) /\ AllLinked(cand)
              /\ cand[1].previous_hash = ZeroLiteral
              /\ \A i \in 1 .. Len(cand) : LeadingZeros(cand[i].hash) >= difficulty)
      ]_vars

\* a chain of two blocks has passed
C9_Witness == cand_result = "True" /\ Len(cand) = 2

\* C10: a chain that passed check_chain_validity, with one field of one block
\* changed to a different value, is rejected.
C10_TamperRejected ==
    [][ (cand_result = "True" /\ cand_result' = "tampered")
        => check_chain_validity(cand', lists').result = "False" ]_vars

\* a chain of two blocks that passed has had one field changed
C10_Witness ==
    /\ Len(cand) = 2
    /\ cand_result = "tampered"
    /\ check_chain_validity(cand, lists).result = "False"

---------------------------------------------------------------------------
(* The coordinator as Flask runs it, app.run(threaded=True): every request  *)
(* is handled by a thread of its own and the handlers take no lock, so the  *)
(* statements of different handlers interleave.  A thread handles one       *)
(* request; its pc names the statement it executes next.                    *)

\* handlers in flight at once
MaxThreads == 2

ThreadIds == 1 .. MaxThreads

Nil == << >>

IdleThread == [op |-> "none", pc |-> "idle", body |-> Nil, option |-> Nil,
               ref |-> 0, last_block |-> Nil, new_block |-> Nil,
               proof |-> Nil, ret |-> Nil, results |-> Nil]

\* the long-runtime proposal every worker of the first round sends
FullBody == [kind |-> "proposal", node_address |-> 0, x |-> 1,
             runtime |-> island_max_runtime]

\* the coordinator after the first N proposals, each handled on its own
InitConc ==
    /\ lists = << [i \in 1 .. n_islands |-> Option(FullBody, i)], << >> >>
    /\ current_options = 1
    /\ chain = create_genesis_block(<< >>, << << >>, << >> >>, 2, 0)
    /\ clock = 1
    /\ solver = [solver_init EXCEPT !.time_function_evaluations =
                                      n_islands * island_max_runtime]
    /\ global_options = get_options(solver_init)
    /\ status = "receiving"
    /\ last = [op |-> "new_option", ret |-> 201]
    /\ n_accepted = n_islands
    /\ n_external = 0
    /\ renew_log = << >>
    /\ iterate_runs = 0
    /\ round_subs = [i \in 1 .. n_islands |->
                       [uid |-> i, runtime |-> island_max_runtime]]
    /\ threads = [t \in ThreadIds |-> IdleThread]
    /\ cand = << >>
    /\ cand_result = "none"
    /\ inner_nodes = {}
    /\ snapshots = {published(get_options(solver_init), solver_init)}

\* where a handler goes on after mine() and after add_block()
AfterMine(op) == IF op = "global_option" THEN "runtime" ELSE "final"
AfterAdd(op) == IF op = "add_block" THEN "respond" ELSE AfterMine(op)

\* Flask starts a thread for GET /global_option
start_pull(t) ==
    /\ threads[t].pc = "idle"
    /\ threads' = [threads EXCEPT ![t] =
                     [IdleThread EXCEPT !.op = "global_option", !.pc = "check"]]
    /\ UNCHANGED <<chain, current_options, global_options, lists, status, solver,
                   clock, last, n_accepted, n_external, renew_log, iterate_runs,
                   round_subs, cand, cand_result, inner_nodes, snapshots>>

\* Flask starts a thread for POST /new_option
start_submit(t, body) ==
    /\ threads[t].pc = "idle"
    /\ n_accepted + Cardinality({u \in ThreadIds : threads[u].pc = "parse"})
         < MaxSubmits
    /\ threads' = [threads EXCEPT ![t] =
                     [IdleThread EXCEPT !.op = "new_option", !.pc = "parse",
                                        !.body = body]]
    /\ UNCHANGED <<chain, current_options, global_options, lists, status, solver,
                   clock, last, n_accepted, n_external, renew_log, iterate_runs,
                   round_subs, cand, cand_result, inner_nodes, snapshots>>

\* Flask starts a thread for POST /add_block; the peer sends a sealed
\* successor of the block that is last when it sends
start_external(t) ==
    LET heap == Append(lists, << >>)
        pw   == proof_of_work(Block(Last(chain).index + 1, Len(heap), clock,
                                    Last(chain).hash, 0), heap)
    IN  /\ threads[t].pc = "idle"
        /\ n_external < MaxExternal
        /\ n_external' = n_external + 1
        /\ lists' = heap
        /\ threads' = [threads EXCEPT ![t] =
                         [IdleThread EXCEPT !.op = "add_block", !.pc = "add_link",
                                            !.new_block = pw.block,
                                            !.proof = pw.proof]]
        /\ UNCHANGED <<chain, current_options, global_options, status, solver,
                       clock, last, n_accepted, renew_log, iterate_runs,
                       round_subs, cand, cand_result, inner_nodes, snapshots>>

\* new_option up to the update of time_function_evaluations
submit_parse(t) ==
    /\ threads[t].pc = "parse"
    /\ n_accepted' = n_accepted + 1
    /\ round_subs' = Append(round_subs, [uid |-> n_accepted + 1,
                                         runtime |-> threads[t].body.runtime])
    /\ solver' = [solver EXCEPT !.time_function_evaluations =
                                  @ + threads[t].body.runtime]
    /\ threads' = [threads EXCEPT ![t].pc = "load_pool",
                                  ![t].option = Option(threads[t].body,
                                                       n_accepted + 1)]
    /\ UNCHANGED <<chain, current_options, global_options, lists, status, clock,
                   last, n_external, renew_log, iterate_runs, cand, cand_result,
                   inner_nodes, snapshots>>

\* add_current_option: self.current_options is read
submit_load(t) ==
    /\ threads[t].pc = "load_pool"
    /\ threads' = [threads EXCEPT ![t].pc = "append", ![t].ref = current_options]
    /\ UNCHANGED <<chain, current_options, global_options, lists, status, solver,
                   clock, last, n_accepted, n_external, renew_log, iterate_runs,
                   round_subs, cand, cand_result, inner_nodes, snapshots>>

\* add_current_option: append on the list that was read, then the test of
\* the reported runtime
submit_append(t) ==
    /\ threads[t].pc = "append"
    /\ lists' = [lists EXCEPT ![threads[t].ref] = Append(@, threads[t].option)]
    /\ threads' = [threads EXCEPT ![t].pc =
                     IF threads[t].body.runtime < island_max_runtime
                     THEN "mine_check" ELSE "respond"]
    /\ UNCHANGED <<chain, current_options, global_options, status, solver, clock,
                   last, n_accepted, n_external, renew_log, iterate_runs,
                   round_subs, cand, cand_result, inner_nodes, snapshots>>

\* new_option after mine_options(): the final answer and the state 'stop'
submit_final(t) ==
    /\ threads[t].pc = "final"
    /\ solver' = [solver EXCEPT !.best_so_far_x = threads[t].body.x,
                                !.best_so_far_y = Fitness(threads[t].body.x),
                                !.runtime = threads[t].body.runtime]
    /\ status' = "stop"
    /\ threads' = [threads EXCEPT ![t].pc = "respond"]
    /\ UNCHANGED <<chain, current_options, global_options, lists, clock, last,
                   n_accepted, n_external, renew_log, iterate_runs, round_subs,
                   cand, cand_result, inner_nodes, snapshots>>

\* renew_global_option: the test of the pending count
pull_check(t) ==
    /\ threads[t].pc = "check"
    /\ threads' = [threads EXCEPT ![t].pc =
                     IF quorum_reached(lists[current_options])
                     THEN "renew" ELSE "respond"]
    /\ UNCHANGED <<chain, current_options, global_options, lists, status, solver,
                   clock, last, n_accepted, n_external, renew_log, iterate_runs,
                   round_subs, cand, cand_result, inner_nodes, snapshots>>

\* renew_global_option: renew_factors on the pending list
pull_renew(t) ==
    LET renewed == renew_factors(solver, lists[current_options])
    IN  /\ threads[t].pc = "renew"
        /\ solver' = renewed.solver
        /\ renew_log' = Append(renew_log, Uids(lists[current_options]))
        /\ threads' = [threads EXCEPT ![t].pc =
                         IF renewed.raised THEN "raised" ELSE "iterate"]
        /\ UNCHANGED <<chain, current_options, global_options, lists, status,
                       clock, last, n_accepted, n_external, iterate_runs,
                       round_subs, cand, cand_result, inner_nodes, snapshots>>

\* renew_global_option: iterate
pull_iterate(t) ==
    LET iterated == iterate(solver)
    IN  /\ threads[t].pc = "iterate"
        /\ solver' = iterated.solver
        /\ iterate_runs' = iterate_runs + 1
        /\ round_subs' = << >>
        /\ snapshots' = snapshots \cup
               {published(get_options(iterated.solver), iterated.solver)}
        /\ threads' = [threads EXCEPT ![t].pc = "publish",
                                      ![t].results = get_options(iterated.solver)]
        /\ UNCHANGED <<chain, current_options, global_options, lists, status,
                       clock, last, n_accepted, n_external, renew_log, cand,
                       cand_result, inner_nodes>>

\* renew_global_option: renew_global_options(results)
pull_publish(t) ==
    /\ threads[t].pc = "publish"
    /\ global_options' = threads[t].results
    /\ threads' = [threads EXCEPT ![t].pc = "mine_check"]
    /\ UNCHANGED <<chain, current_options, lists, status, solver, clock, last,
                   n_accepted, n_external, renew_log, iterate_runs, round_subs,
                   cand, cand_result, inner_nodes, snapshots>>

\* renew_global_option: the runtime of the round is added
pull_runtime(t, elapsed) ==
    /\ threads[t].pc = "runtime"
    /\ solver' = [solver EXCEPT !.runtime = @ + elapsed + island_max_runtime]
    /\ threads' = [threads EXCEPT ![t].pc = "terminate"]
    /\ UNCHANGED <<chain, current_options, global_options, lists, status, clock,
                   last, n_accepted, n_external, renew_log, iterate_runs,
                   round_subs, cand, cand_result, inner_nodes, snapshots>>

\* renew_global_option: _check_terminations and the state 'stop'
pull_terminate(t) ==
    LET checked == check_terminations(solver)
    IN  /\ threads[t].pc = "terminate"
        /\ solver' = checked.solver
        /\ status' = IF checked.stop THEN "stop" ELSE status
        /\ threads' = [threads EXCEPT ![t].pc = "respond"]
        /\ UNCHANGED <<chain, current_options, global_options, lists, clock, last,
                       n_accepted, n_external, renew_log, iterate_runs,
                       round_subs, cand, cand_result, inner_nodes, snapshots>>

\* mine: the test of the pending list
mine_check(t) ==
    /\ threads[t].pc = "mine_check"
    /\ threads' = [threads EXCEPT ![t].pc =
                     IF lists[current_options] = << >>
                     THEN AfterMine(threads[t].op) ELSE "mine_last"]
    /\ UNCHANGED <<chain, current_options, global_options, lists, status, solver,
                   clock, last, n_accepted, n_external, renew_log, iterate_runs,
                   round_subs, cand, cand_result, inner_nodes, snapshots>>

\* mine: last_block = self.last_block()
mine_last(t) ==
    /\ threads[t].pc = "mine_last"
    /\ threads' = [threads EXCEPT ![t].pc = "mine_block",
                                  ![t].last_block = Last(chain)]
    /\ UNCHANGED <<chain, current_options, global_options, lists, status, solver,
                   clock, last, n_accepted, n_external, renew_log, iterate_runs,
                   round_subs, cand, cand_result, inner_nodes, snapshots>>

\* mine: the new block is built on the pending list
mine_block(t) ==
    /\ threads[t].pc = "mine_block"
    /\ clock' = clock + 1
    /\ threads' = [threads EXCEPT ![t].pc = "mine_rebind",
                     ![t].new_block = Block(threads[t].last_block.index + 1,
                                            current_options, clock,
                                            threads[t].last_block.hash, 0)]
    /\ UNCHANGED <<chain, current_options, global_options, lists, status, solver,
                   last, n_accepted, n_external, renew_log, iterate_runs,
                   round_subs, cand, cand_result, inner_nodes, snapshots>>

\* mine: self.current_options = []
mine_rebind(t) ==
    /\ threads[t].pc = "mine_rebind"
    /\ lists' = Append(lists, << >>)
    /\ current_options' = Len(lists) + 1
    /\ threads' = [threads EXCEPT ![t].pc = "mine_pow"]
    /\ UNCHANGED <<chain, global_options, status, solver, clock, last,
                   n_accepted, n_external, renew_log, iterate_runs, round_subs,
                   cand, cand_result, inner_nodes, snapshots>>

\* mine: proof = self.proof_of_work(new_block)
mine_pow(t) ==
    LET pw == proof_of_work(threads[t].new_block, lists)
    IN  /\ threads[t].pc = "mine_pow"
        /\ threads' = [threads EXCEPT ![t].pc = "add_link",
                                      ![t].new_block = pw.block,
                                      ![t].proof = pw.proof]
        /\ UNCHANGED <<chain, current_options, global_options, lists, status,
                       solver, clock, last, n_accepted, n_external, renew_log,
                       iterate_runs, round_subs, cand, cand_result,
                       inner_nodes, snapshots>>

\* add_block: the comparison with the hash of the block that is last now
add_link(t) ==
    /\ threads[t].pc = "add_link"
    /\ threads' =
         IF /\ threads[t].new_block.index # 0
            /\ Last(chain).hash # threads[t].new_block.previous_hash
         THEN [threads EXCEPT ![t].pc = AfterAdd(threads[t].op),
                              ![t].ret = "False"]
         ELSE [threads EXCEPT ![t].pc = "add_valid"]
    /\ UNCHANGED <<chain, current_options, global_options, lists, status, solver,
                   clock, last, n_accepted, n_external, renew_log, iterate_runs,
                   round_subs, cand, cand_result, inner_nodes, snapshots>>

\* add_block: is_valid_proof
add_valid(t) ==
    /\ threads[t].pc = "add_valid"
    /\ threads' =
         IF is_valid_proof(threads[t].new_block, threads[t].proof, lists)
         THEN [threads EXCEPT ![t].pc = "add_append"]
         ELSE [threads EXCEPT ![t].pc = AfterAdd(threads[t].op),
                              ![t].ret = "False"]
    /\ UNCHANGED <<chain, current_options, global_options, lists, status, solver,
                   clock, last, n_accepted, n_external, renew_log, iterate_runs,
                   round_subs, cand, cand_result, inner_nodes, snapshots>>

\* add_block: block.hash = proof; self.chain.append(block)
add_append(t) ==
    /\ threads[t].pc = "add_append"
    /\ chain' = Append(chain, [threads[t].new_block EXCEPT
                                 !.hash = threads[t].proof])
    /\ threads' = [threads EXCEPT ![t].pc = AfterAdd(threads[t].op),
                                  ![t].ret = "True"]
    /\ UNCHANGED <<current_options, global_options, lists, status, solver, clock,
                   last, n_accepted, n_external, renew_log, iterate_runs,
                   round_subs, cand, cand_result, inner_nodes, snapshots>>

\* the handler returns, or the exception of renew_factors ends it
respond(t) ==
    /\ threads[t].pc \in {"respond", "raised"}
    /\ last' = IF threads[t].pc = "raised"
                THEN [op |-> threads[t].op, ret |-> 500]
                ELSE IF threads[t].op = "global_option"
                THEN [op |-> "global_option", ret |-> 201,
                      global_options |-> published(global_options, solver)]
                ELSE IF threads[t].op = "add_block"
                THEN [op |-> "add_block",
                      ret |-> IF threads[t].ret = "True" THEN 201 ELSE 400]
                ELSE [op |-> threads[t].op, ret |-> 201]
    /\ threads' = [threads EXCEPT ![t].pc = "done"]
    /\ UNCHANGED <<chain, current_options, global_options, lists, status, solver,
                   clock, n_accepted, n_external, renew_log, iterate_runs,
                   round_subs, cand, cand_result, inner_nodes, snapshots>>

NextConc ==
    \E t \in ThreadIds :
        \/ start_pull(t)
        \/ \E runtime \in Runtimes :
               start_submit(t, [FullBody EXCEPT !.runtime = runtime])
        \/ start_external(t)
        \/ submit_parse(t)
        \/ submit_load(t)
        \/ submit_append(t)
        \/ submit_final(t)
        \/ pull_check(t)
        \/ pull_renew(t)
        \/ pull_iterate(t)
        \/ pull_publish(t)
        \/ \E elapsed \in {0, 1} : pull_runtime(t, elapsed)
        \/ pull_terminate(t)
        \/ mine_check(t)
        \/ mine_last(t)
        \/ mine_block(t)
        \/ mine_rebind(t)
        \/ mine_pow(t)
        \/ add_link(t)
        \/ add_valid(t)
        \/ add_append(t)
        \/ respond(t)

SpecConc == InitConc /\ [][NextConc]_vars

\* C5: aggregation fires at most once per quorum: every run of iterate has N
\* accepted proposals of its own.
C5_OnceForEachQuorum ==
    iterate_runs * n_islands <= n_accepted

\* C6: the chain holds no two blocks with the same previous_hash, and every
\* block after the first names the hash of the block that precedes it.
C6_AppendsSerialized ==
    /\ \A i, j \in 1 .. Len(chain) :
           i # j => chain[i].previous_hash # chain[j].previous_hash
    /\ \A i \in 2 .. Len(chain) : chain[i].previous_hash = chain[i - 1].hash

---------------------------------------------------------------------------
(* A Blockchain object driven through its interface: the object of a        *)
(* worker, which starts empty and imports the coordinator's chain, and the  *)
(* operations of the coordinator that no route reaches (consensus).  cand   *)
(* is the chain a peer serves at GET /chain.                                *)

\* the longest local chain the interface is driven to
MaxLedger == 3

\* the addresses POST /register_inner_new is sent
NodeAddresses == {"", "peer"}

InitLedger ==
    /\ lists = << << >>, << >>,
                  << Option([node_address |-> 0, x |-> 1], 1) >> >>
    /\ current_options = 1
    /\ chain = << >>
    /\ clock = 0
    /\ solver = solver_init
    /\ global_options = get_options(solver_init)
    /\ status = "receiving"
    /\ last = [op |-> "start", ret |-> "None"]
    /\ n_accepted = 0
    /\ n_external = 0
    /\ renew_log = << >>
    /\ iterate_runs = 0
    /\ round_subs = << >>
    /\ threads = NoThreads
    /\ cand = << >>
    /\ cand_result = "none"
    /\ inner_nodes = {}
    /\ snapshots = {published(get_options(solver_init), solver_init)}

\* Blockchain.add_blocks from position i of the dump on: ret is "None" when
\* the loop ends, "Exception" when add_block refuses a block, "IndexError"
\* when add_block raises, "KeyError" when the dump's block has no key 'hash'
RECURSIVE add_blocks(_, _, _, _)
add_blocks(ch, heap, chain_dump, i) ==
    IF i > Len(chain_dump) THEN [ret |-> "None", chain |-> ch]
    ELSE LET block_data == chain_dump[i]
             block == Block(block_data.index, block_data.options,
                            block_data.timestamp, block_data.previous_hash,
                            block_data.nonce)
             if_add == add_block(ch, heap, block, block_data.hash)
         IN  IF block_data.hash = NoAttr THEN [ret |-> "KeyError", chain |-> ch]
             ELSE IF if_add.ret = "IndexError"
             THEN [ret |-> "IndexError", chain |-> ch]
             ELSE IF if_add.ret = "False"
             THEN [ret |-> "Exception", chain |-> ch]
             ELSE add_blocks(if_add.chain, heap, chain_dump, i + 1)

\* server.py consensus(): `request` is Flask's request object, which has no
\* attribute get, so the first peer's fetch raises; without peers the loop
\* body never runs and the function returns None
consensus(ch, nodes) ==
    IF nodes = {} THEN [ret |-> "None", chain |-> ch]
    ELSE [ret |-> "AttributeError", chain |-> ch]

\* create_genesis_block() is called on the object
ledger_genesis ==
    /\ Len(chain) < MaxLedger
    /\ lists' = Append(lists, << >>)
    /\ chain' = create_genesis_block(chain, lists', Len(lists'), clock)
    /\ clock' = clock + 1
    /\ last' = [op |-> "create_genesis_block", ret |-> "None"]
    /\ UNCHANGED <<current_options, global_options, status, solver, n_accepted,
                   n_external, renew_log, iterate_runs, round_subs, threads,
                   cand, cand_result, inner_nodes, snapshots>>

\* Client.register_node: add_blocks(self.get_chain())
ledger_import ==
    LET imported == add_blocks(chain, lists, cand, 1)
    IN  /\ cand # << >>
        /\ Len(chain) < MaxLedger
        /\ chain' = imported.chain
        /\ last' = [op |-> "add_blocks", ret |-> imported.ret, dump |-> cand]
        /\ UNCHANGED <<current_options, global_options, lists, status, solver,
                       clock, n_accepted, n_external, renew_log, iterate_runs,
                       round_subs, threads, cand, cand_result, inner_nodes,
                       snapshots>>

\* POST /register_inner_new
register_new_inner_node(node_address) ==
    /\ inner_nodes' = IF node_address = "" THEN inner_nodes
                      ELSE inner_nodes \cup {node_address}
    /\ last' = [op |-> "register_inner_new", ret |-> "400"]
    /\ UNCHANGED <<chain, current_options, global_options, lists, status, solver,
                   clock, n_accepted, n_external, renew_log, iterate_runs,
                   round_subs, threads, cand, cand_result, snapshots>>

\* consensus() is called; the peers serve cand
ledger_consensus ==
    LET chosen == consensus(chain, inner_nodes)
    IN  /\ chain' = chosen.chain
        /\ last' = [op |-> "consensus", ret |-> chosen.ret]
        /\ UNCHANGED <<current_options, global_options, lists, status, solver,
                       clock, n_accepted, n_external, renew_log, iterate_runs,
                       round_subs, threads, cand, cand_result, inner_nodes,
                       snapshots>>

\* a peer puts one more block on the chain it serves
peer_append(options, previous_hash, nonce, own_hash) ==
    LET block == Block(Len(cand), options, 0, previous_hash, nonce)
    IN  /\ Len(cand) < MaxCand
        /\ cand' = Append(cand, [block EXCEPT !.hash =
                            IF own_hash THEN compute_hash(block, lists)
                            ELSE ZeroLiteral])
        /\ UNCHANGED <<chain, current_options, global_options, lists, status,
                       solver, clock, last, n_accepted, n_external, renew_log,
                       iterate_runs, round_subs, threads, cand_result,
                       inner_nodes, snapshots>>

NextLedger ==
    \/ ledger_genesis
    \/ ledger_import
    \/ \E node_address \in NodeAddresses : register_new_inner_node(node_address)
    \/ ledger_consensus
    \/ \E options \in CandLists, previous_hash \in KnownHashes, nonce \in {0, 1},
          own_hash \in BOOLEAN :
          peer_append(options, previous_hash, nonce, own_hash)

SpecLedger == InitLedger /\ [][NextLedger]_vars

\* the peer's chain passes check_chain_validity and is longer than the local
PeerChainWins ==
    /\ inner_nodes # {}
    /\ Len(cand) > Len(chain)
    /\ check_chain_validity(cand, lists).result = "True"

\* C11: consensus replaces the local chain with the longest peer chain that
\* passes validation and is strictly longer; when no peer chain is valid and
\* strictly longer, the local chain stays as it is.
C11_LongestValidChain ==
    [][ last'.op = "consensus" =>
          chain' = IF PeerChainWins THEN cand ELSE chain ]_vars

\* C12: add_blocks is all or nothing: when a block of the dump fails, the
\* local chain is left exactly as it was before the import.
C12_ImportAllOrNothing ==
    [][ (last'.op = "add_blocks" /\ last'.ret # "None") => chain' = chain ]_vars

\* C20: create_genesis_block fails on a ledger that is not empty and leaves the
\* chain unchanged.
C20_GenesisOnlyOnEmpty ==
    [][ (last'.op = "create_genesis_block" /\ chain # << >>)
        => chain' = chain ]_vars

---------------------------------------------------------------------------
(* _check_terminations on a solver whose counters take every side of every  *)
(* cap.                                                                     *)

\* how far from its cap a counter of the solver is drawn
Margin == 1

Around(cap) == (cap - Margin) .. (cap + Margin)

InitTermination ==
    /\ lists = << << >>, << >> >>
    /\ current_options = 1
    /\ chain = create_genesis_block(<< >>, << << >>, << >> >>, 2, 0)
    /\ clock = 1
    /\ \E evaluations \in Around(max_function_evaluations) \cup {n_islands},
          runtime \in Around(max_runtime) \cup {0},
          best_so_far_y \in Around(fitness_threshold),
          is_maximization \in BOOLEAN :
          solver = [solver_init EXCEPT
                      !.n_function_evaluations = evaluations,
                      !.runtime = runtime,
                      !.best_so_far_y = best_so_far_y,
                      !.is_maximization = is_maximization]
    /\ global_options = get_options(solver_init)
    /\ status = "receiving"
    /\ last = [op |-> "start", ret |-> "None"]
    /\ n_accepted = 0
    /\ n_external = 0
    /\ renew_log = << >>
    /\ iterate_runs = 0
    /\ round_subs = << >>
    /\ threads = NoThreads
    /\ cand = << >>
    /\ cand_result = "none"
    /\ inner_nodes = {}
    /\ snapshots = {published(get_options(solver_init), solver_init)}

\* if status['solver']._check_terminations(): status['s'] = 'stop'
termination_check ==
    LET checked == check_terminations(solver)
    IN  /\ last.op = "start"
        /\ solver' = checked.solver
        /\ status' = IF checked.stop THEN "stop" ELSE status
        /\ last' = [op |-> "_check_terminations", ret |-> checked.stop]
        /\ UNCHANGED <<chain, current_options, global_options, lists, clock,
                       n_accepted, n_external, renew_log, iterate_runs,
                       round_subs, threads, cand, cand_result, inner_nodes,
                       snapshots>>

NextTermination == termination_check

SpecTermination == InitTermination /\ [][NextTermination]_vars

EvaluationsSpent(sol) == sol.n_function_evaluations >= max_function_evaluations
RuntimeSpent(sol) == sol.runtime >= max_runtime
ThresholdCrossed(sol) ==
    IF sol.is_maximization THEN sol.best_so_far_y >= fitness_threshold
    ELSE sol.best_so_far_y <= fitness_threshold

\* C16 as stated: each condition gives its own reason whenever it holds, and
\* the check is false with reason NONE exactly when none of them holds.
C16_EachConditionItsReason ==
    [][ last'.op = "_check_terminations" =>
          /\ EvaluationsSpent(solver) =>
               last'.ret /\ solver'.termination_signal = "MAX_FUNCTION_EVALUATIONS"
          /\ RuntimeSpent(solver) =>
               last'.ret /\ solver'.termination_signal = "MAX_RUNTIME"
          /\ ThresholdCrossed(solver) =>
               last'.ret /\ solver'.termination_signal = "FITNESS_THRESHOLD"
          /\ (~ last'.ret /\ solver'.termination_signal = "NO_TERMINATION")
               <=> ~ ( \/ EvaluationsSpent(solver) \/ RuntimeSpent(solver)
                       \/ ThresholdCrossed(solver) )
      ]_vars

\* C16 as amended: the conditions are tested in the order evaluations,
\* runtime, threshold, and the first that holds gives the reason.
C16_FirstConditionItsReason ==
    [][ last'.op = "_check_terminations" =>
          /\ EvaluationsSpent(solver) =>
               last'.ret /\ solver'.termination_signal = "MAX_FUNCTION_EVALUATIONS"
          /\ (RuntimeSpent(solver) /\ ~ EvaluationsSpent(solver)) =>
               last'.ret /\ solver'.termination_signal = "MAX_RUNTIME"
          /\ ( /\ ThresholdCrossed(solver)
               /\ ~ EvaluationsSpent(solver) /\ ~ RuntimeSpent(solver) ) =>
               last'.ret /\ solver'.termination_signal = "FITNESS_THRESHOLD"
          /\ (~ last'.ret /\ solver'.termination_signal = "NO_TERMINATION")
               <=> ~ ( \/ EvaluationsSpent(solver) \/ RuntimeSpent(solver)
                       \/ ThresholdCrossed(solver) )
          /\ status' = IF last'.ret THEN "stop" ELSE status
      ]_vars

\* the check has answered with the runtime spent and evaluations left, when
\* maximizing and the threshold is crossed as well
C16_Witness ==
    /\ last.op = "_check_terminations" /\ last.ret
    /\ solver.termination_signal = "MAX_RUNTIME"
    /\ solver.is_maximization /\ solver.best_so_far_y > fitness_threshold

---------------------------------------------------------------------------
(* The outer solver on its own: rounds of renew_factors on the proposals of *)
(* the workers, in the order they arrived, followed by iterate.             *)

\* rounds of aggregation the solver is driven through
MaxRounds == 2

\* the proposal of the worker of island a in round r
WorkerOption(a, r) ==
    [uid |-> r * n_islands + a + 1, node_address |-> a,
     s |-> 10 * (a + 1) + r, tm |-> 20 * (a + 1) + r,
     c_s |-> 100 * (a + 1), sigma |-> 30 * (a + 1) + r,
     x |-> 100 * (n_islands - a) + r,
     y |-> Fitness(100 * (n_islands - a) + r)]

\* the orders in which the proposals of a round arrive: by island, rotated,
\* reversed, and two rounds in which only two workers have answered
ArrivalOrders ==
    {[i \in 1 .. n_islands |-> (i - 1 + k) % n_islands] : k \in Islands}
    \cup {[i \in 1 .. n_islands |-> n_islands - i]}
    \cup {<< 0, 1 >>, << 1, 0 >>}

InitSolver ==
    /\ lists = << << >>, << >> >>
    /\ current_options = 1
    /\ chain = create_genesis_block(<< >>, << << >>, << >> >>, 2, 0)
    /\ clock = 1
    /\ solver = solver_init
    /\ global_options = get_options(solver_init)
    /\ status = "receiving"
    /\ last = [op |-> "start", ret |-> "None"]
    /\ n_accepted = 0
    /\ n_external = 0
    /\ renew_log = << >>
    /\ iterate_runs = 0
    /\ round_subs = << >>
    /\ threads = NoThreads
    /\ cand = << >>
    /\ cand_result = "none"
    /\ inner_nodes = {}
    /\ snapshots = {published(get_options(solver_init), solver_init)}

\* status['solver'].renew_factors(current_options)
solver_renew(order) ==
    LET factor_options == [i \in 1 .. Len(order) |->
                             WorkerOption(order[i], iterate_runs)]
        renewed == renew_factors(solver, factor_options)
    IN  /\ last.op # "renew_factors"
        /\ iterate_runs < MaxRounds
        /\ solver' = renewed.solver
        /\ renew_log' = Append(renew_log, Uids(factor_options))
        /\ last' = [op |-> "renew_factors", ret |-> renewed.raised,
                    options |-> factor_options]
        /\ UNCHANGED <<chain, current_options, global_options, lists, status,
                       clock, n_accepted, n_external, iterate_runs, round_subs,
                       threads, cand, cand_result, inner_nodes, snapshots>>

\* results = status['solver'].iterate()
solver_iterate ==
    LET iterated == iterate(solver)
    IN  /\ last.op = "renew_factors"
        /\ solver' = iterated.solver
        /\ iterate_runs' = iterate_runs + 1
        /\ global_options' = get_options(iterated.solver)
        /\ snapshots' = snapshots \cup
               {published(get_options(iterated.solver), iterated.solver)}
        /\ last' = [op |-> "iterate", ret |-> iterated.raised]
        /\ UNCHANGED <<chain, current_options, lists, status, clock, n_accepted,
                       n_external, renew_log, round_subs, threads, cand,
                       cand_result, inner_nodes>>

NextSolver ==
    \/ \E order \in ArrivalOrders : solver_renew(order)
    \/ solver_iterate

SpecSolver == InitSolver /\ [][NextSolver]_vars

\* C13: renew_factors writes every proposal into the row of the island of its
\* origin identifier, whatever the order of arrival, and leaves the rows of
\* the islands without a proposal as they were.
C13_RowOfOrigin ==
    [][ last'.op = "renew_factors" =>
          LET opts == last'.options
              origins == {opts[k].node_address : k \in 1 .. Len(opts)}
          IN  /\ \A k \in 1 .. Len(opts) :
                    LET o == opts[k]
                        i == o.node_address
                    IN  /\ solver'.best_x[i] = o.x /\ solver'.best_y[i] = o.y
                        /\ solver'.s[i] = o.s /\ solver'.tm[i] = o.tm
                        /\ solver'.c_s[i] = o.c_s /\ solver'.sigmas[i] = o.sigma
              /\ \A i \in Islands \ origins :
                    /\ solver'.best_x[i] = solver.best_x[i]
                    /\ solver'.best_y[i] = solver.best_y[i]
                    /\ solver'.s[i] = solver.s[i] /\ solver'.tm[i] = solver.tm[i]
                    /\ solver'.c_s[i] = solver.c_s[i]
                    /\ solver'.sigmas[i] = solver.sigmas[i]
      ]_vars

\* how many islands come before island j by ascending quality score
Before(y, j) ==
    Cardinality({i \in Islands : y[i] < y[j] \/ (y[i] = y[j] /\ i < j)})

\* the sum over the islands j ranked below E of weight[rank of j] * row[j]
RECURSIVE EliteSum(_, _, _)
EliteSum(y, row, j) ==
    IF j >= n_islands THEN 0
    ELSE (IF Before(y, j) < n_better_islands
          THEN Dw[Before(y, j) + 1] * row[j] ELSE 0) + EliteSum(y, row, j + 1)

Elite(y, row) == EliteSum(y, row, 0) \div 100

\* C14: iterate ranks the islands by ascending quality score and recombines
\* the values of the E best with the weights; the learning rate and the
\* transform matrix of the islands the schedule leaves alone and the step size
\* of the island scaled by one are the recombined ones, and on every round
\* after the first every island's solution and mutation strength are.
C14_EliteRecombination ==
    [][ last'.op = "iterate" =>
          LET y == solver.best_y
          IN  /\ n_islands <= Len(sigma_scale) =>
                   \A j \in Islands :
                       /\ solver'.c_s[j] = Elite(y, solver.c_s)
                       /\ solver'.tm[j] = Elite(y, solver.tm)
                       /\ Before(y, j) = n_islands - 2 =>
                            solver'.sigmas[j] = Elite(y, solver.sigmas)
              /\ iterate_runs >= 1 =>
                   \A j \in Islands :
                       /\ solver'.best_x[j] = Elite(y, solver.best_x)
                       /\ solver'.s[j] = Elite(y, solver.s)
      ]_vars

\* the second round's iterate has run on rows that arrived out of order
C14_Witness ==
    /\ last.op = "iterate"
    /\ iterate_runs = 2
    /\ renew_log[2][1] # n_islands + 1
    /\ \A j \in Islands : solver.best_x[j] = solver.best_x[0]

\* C15: after the first iterate every island's best-known solution is the
\* point it sampled at the start; after every later one it is the recombined
\* value.
C15_FirstRoundKeepsSample ==
    [][ last'.op = "iterate" =>
          IF iterate_runs = 0
          THEN solver'.best_x = solver_init.best_x
          ELSE \A j \in Islands :
                   solver'.best_x[j] = Elite(solver.best_y, solver.best_x)
      ]_vars

---------------------------------------------------------------------------
(* POST /new_option on its own, with bodies whose fields are missing or     *)
(* hold values no worker can have produced.                                 *)

\* the bodies of ProposalBodies and a proposal whose runtime is negative
SubmitBodies ==
    ProposalBodies
    \cup [kind : {"proposal"}, node_address : {0}, x : {1}, runtime : {0 - 1}]

NextSubmit ==
    \E body \in SubmitBodies : n_accepted < MaxSubmits /\ new_option(body)

SpecSubmit == Init /\ [][NextSubmit]_vars

\* the body lacks the proposal or one of its fields, or a field's value is
\* not one a proposal can have
Malformed(body) == body.kind # "proposal" \/ body.runtime < 0

\* C17: a submission with a missing or invalid field is rejected and changes
\* nothing: not the pending pool, the chain, the GlobalState, the solver's
\* counters or the coordinator's state.
C17_MalformedChangesNothing ==
    [][ (last'.op = "new_option" /\ Malformed(last'.body)) =>
          /\ last'.ret \in {404, 500}
          /\ UNCHANGED <<lists, current_options, chain, global_options, solver,
                         status>>
      ]_vars

---------------------------------------------------------------------------
(* The threaded coordinator with a first round of proposals that differ     *)
(* from island to island, so that the rows renew_factors writes, the rows   *)
(* iterate writes and the rows of construction are all told apart.          *)

InitRead ==
    /\ lists = << [i \in 1 .. n_islands |-> WorkerOption(i - 1, 0)], << >> >>
    /\ current_options = 1
    /\ chain = create_genesis_block(<< >>, << << >>, << >> >>, 2, 0)
    /\ clock = 1
    /\ solver = [solver_init EXCEPT !.time_function_evaluations =
                                      n_islands * island_max_runtime]
    /\ global_options = get_options(solver_init)
    /\ status = "receiving"
    /\ last = [op |-> "new_option", ret |-> 201]
    /\ n_accepted = n_islands
    /\ n_external = 0
    /\ renew_log = << >>
    /\ iterate_runs = 0
    /\ round_subs = [i \in 1 .. n_islands |->
                       [uid |-> i, runtime |-> island_max_runtime]]
    /\ threads = [t \in ThreadIds |-> IdleThread]
    /\ cand = << >>
    /\ cand_result = "none"
    /\ inner_nodes = {}
    /\ snapshots = {published(get_options(solver_init), solver_init)}

SpecRead == InitRead /\ [][NextConc]_vars

\* C18: a read of the global parameters returns a parameter set that get_options
\* or iterate has published: the complete set of before the round or the
\* complete set of after it, whatever aggregation runs beside the read.
C18_ReadIsPublishedSet ==
    (last.op = "global_option" /\ last.ret = 201) =>
        last.global_options \in snapshots

---------------------------------------------------------------------------
(* The first block of the coordinator's chain.                              *)

\* C19: in every state of the coordinator after startup the first block of the
\* chain is the genesis block: index 0, previous_hash "0", empty payload.
C19_GenesisFirst ==
    /\ chain # << >>
    /\ chain[1].index = 0
    /\ chain[1].previous_hash = ZeroLiteral
    /\ lists[chain[1].options] = << >>

\* the chain has grown by a mined block with proposals in it and by a block
\* a peer sent, and proposals are pending again
C19_Witness ==
    /\ C19_GenesisFirst
    /\ Len(chain) >= 3
    /\ \E i \in 2 .. Len(chain) : lists[chain[i].options] # << >>
    /\ last.op = "add_block" /\ last.ret = 201

---------------------------------------------------------------------------
(* Rounds of the coordinator, one request at a time.                        *)

\* C21: a pull that finds N or more proposals pending closes the round: the
\* aggregation completes, one new block holds all the pending proposals, and
\* the pending pool is empty afterwards.
C21_QuorumClosesRound ==
    [][ (last'.op = "global_option" /\ Len(lists[current_options]) >= n_islands) =>
          /\ last'.ret = 201
          /\ iterate_runs' = iterate_runs + 1
          /\ Len(chain') = Len(chain) + 1
          /\ lists'[Last(chain').options] = lists[current_options]
          /\ lists'[current_options'] = << >>
      ]_vars

---------------------------------------------------------------------------
(* The assignment loop of iterate on a solver with enough islands for every *)
(* branch of the schedule, one pass at a time.  threads[1] holds the locals *)
(* of iterate: p, the counters, order and the recombined values.            *)

\* the islands of that solver
ScheduleIslands == 128

ScheduleRows == 0 .. ScheduleIslands - 1

\* np.argsort(self.best_y) when the islands rank by number, against it, and
\* in a rotation
ScheduleOrders ==
    { [k \in ScheduleRows |-> k],
      [k \in ScheduleRows |-> ScheduleIslands - 1 - k],
      [k \in ScheduleRows |-> (k + 3) % ScheduleIslands] }

InitSchedule ==
    /\ lists = << << >>, << >> >>
    /\ current_options = 1
    /\ chain = create_genesis_block(<< >>, << << >>, << >> >>, 2, 0)
    /\ clock = 1
    /\ solver = [solver_init EXCEPT
                   !.best_x = [j \in ScheduleRows |-> j + 1],
                   !.best_y = [j \in ScheduleRows |-> Fitness(j + 1)],
                   !.s = [j \in ScheduleRows |-> 0],
                   !.tm = [j \in ScheduleRows |-> 0],
                   !.c_s = [j \in ScheduleRows |-> 26],
                   !.sigmas = [j \in ScheduleRows |-> 30]]
    /\ global_options = get_options(solver_init)
    /\ status = "receiving"
    /\ last = [op |-> "start", ret |-> "None"]
    /\ n_accepted = 0
    /\ n_external = 0
    /\ renew_log = << >>
    /\ iterate_runs = 0
    /\ round_subs = << >>
    /\ \E order \in ScheduleOrders, w_sigma \in {7, 21} :
           threads = << [p |-> 0, n_islands |-> ScheduleIslands, order |-> order,
                         index_1 |-> 0, index_2 |-> 0, index_3 |-> 0,
                         index_4 |-> 0, index_5 |-> 0, index_6 |-> 0,
                         w_x |-> 500, w_s |-> 3, w_tm |-> 5, w_c_s |-> 33,
                         w_sigma |-> w_sigma] >>
    /\ cand = << >>
    /\ cand_result = "none"
    /\ inner_nodes = {}
    /\ snapshots = {published(get_options(solver_init), solver_init)}

\* one pass of `for p in range(self.n_islands)`
schedule_pass ==
    LET passed == assign_pass(solver, threads[1])
    IN  /\ threads[1].p < threads[1].n_islands
        /\ solver' = passed.solver
        /\ threads' = << passed.loc >>
        /\ UNCHANGED <<chain, current_options, global_options, lists, status,
                       clock, last, n_accepted, n_external, renew_log,
                       iterate_runs, round_subs, cand, cand_result, inner_nodes,
                       snapshots>>

NextSchedule == schedule_pass

SpecSchedule == InitSchedule /\ [][NextSchedule]_vars

\* the schedule as stated: the step size, the transform matrix and the
\* learning rate of the island at position q from the worst
StatedSigma(q, w_sigma) ==
    IF q <= 27 THEN (w_sigma * sigma_scale[(q % 7) + 1]) \div 2
    ELSE IF q >= 50 /\ q <= 126 THEN (w_sigma * sl[q - 50 + 1][1]) \div 2
    ELSE w_sigma

StatedTm(q, w_tm) == IF q >= 14 /\ q <= 27 THEN 0 ELSE w_tm

StatedCs(q, w_c_s) ==
    IF q >= 28 /\ q <= 49 THEN learning_ratios[((q - 28) % 11) + 1]
    ELSE IF q >= 50 /\ q <= 126 THEN sl[q - 50 + 1][2]
    ELSE w_c_s

\* C22: the island at position q from the worst has the scheduled step size,
\* transform matrix and learning rate of position q, and the recombined value
\* in every other field, once the loop has passed position q.
C22_ScheduleWorstFirst ==
    LET loc == threads[1]
    IN  \A q \in 0 .. loc.p - 1 :
          LET j == loc.order[ScheduleIslands - 1 - q]
          IN  /\ solver.best_x[j] = loc.w_x
              /\ solver.s[j] = loc.w_s
              /\ solver.sigmas[j] = StatedSigma(q, loc.w_sigma)
              /\ solver.tm[j] = StatedTm(q, loc.w_tm)
              /\ solver.c_s[j] = StatedCs(q, loc.w_c_s)

\* the loop has run through every branch of the schedule
C22_Witness ==
    /\ threads[1].p >= 127
    /\ threads[1].index_6 = 11
    /\ solver.tm[threads[1].order[ScheduleIslands - 1 - 14]] = 0
    /\ solver.c_s[threads[1].order[ScheduleIslands - 1 - 126]] = 1000

---------------------------------------------------------------------------
(* A pull before the quorum.                                                *)

\* C23: a pull of the global parameters while fewer than N proposals are
\* pending changes nothing (pending pool, chain, GlobalState, accounted
\* runtime, coordinator state) and returns the published parameter sets.
C23_PullBelowQuorumIsRead ==
    [][ (last'.op = "global_option" /\ Len(lists[current_options]) < n_islands) =>
          /\ last'.ret = 201
          /\ last'.global_options = published(global_options, solver)
          /\ UNCHANGED <<lists, current_options, chain, global_options, solver,
                         status>>
      ]_vars

\* a pull has answered while some proposals, fewer than N, were pending
C23_Witness ==
    /\ last.op = "global_option" /\ last.ret = 201
    /\ Len(lists[current_options]) > 0
    /\ Len(lists[current_options]) < n_islands
    /\ last.global_options = published(global_options, solver)

---------------------------------------------------------------------------
(* The ledger under concurrent requests.                                    *)

\* C24: the ledger is append-only: every block of the chain is still there in
\* the next state, at the same position, with the same field values and the
\* same payload.
C24_AppendOnly ==
    [][ /\ Len(chain') >= Len(chain)
        /\ \A i \in 1 .. Len(chain) :
             /\ chain'[i] = chain[i]
             /\ lists'[chain'[i].options] = lists[chain[i].options]
      ]_vars

---------------------------------------------------------------------------
(* What check_chain_validity leaves of the chain it examined.               *)

\* C25: when check_chain_validity returns, with True or with False, every
\* block of the examined chain has the stored hash and the other fields it
\* had before the call.
C25_HashRestored ==
    [][ (cand_result \in {"none", "tampered"} /\ cand_result' \in {"True", "False"})
          => cand' = cand ]_vars

---------------------------------------------------------------------------
(* The indices along the coordinator's chain.                               *)

\* C26: the block at position i of the chain (counted from 0) has index i.
C26_IndexIsPosition ==
    \A i \in 1 .. Len(chain) : chain[i].index = i - 1

---------------------------------------------------------------------------
(* A worker beside the coordinator.  cand is self.blockchain.chain of the   *)
(* Client, threads[1] the position of Client.work and what it has read, and *)
(* cand_result the outcome of its last call on the local chain.             *)

InitWorker ==
    /\ lists = << << >>, << >> >>
    /\ current_options = 1
    /\ chain = create_genesis_block(<< >>, << << >>, << >> >>, 2, 0)
    /\ clock = 1
    /\ solver = solver_init
    /\ global_options = get_options(solver_init)
    /\ status = "receiving"
    /\ last = [op |-> "start", ret |-> 0]
    /\ n_accepted = 0
    /\ n_external = 0
    /\ renew_log = << >>
    /\ iterate_runs = 0
    /\ round_subs = << >>
    /\ threads = << [pc |-> "register_node", length |-> 0, status |-> "receiving"] >>
    /\ cand = << >>
    /\ cand_result = "none"
    /\ inner_nodes = {}
    /\ snapshots = {published(get_options(solver_init), solver_init)}

\* Client.register_node: add_blocks(self.get_chain()) on the empty local chain
worker_register_node ==
    LET imported == add_blocks(cand, lists, chain, 1)
    IN  /\ threads[1].pc = "register_node"
        /\ cand' = imported.chain
        /\ cand_result' = imported.ret
        /\ threads' = << [threads[1] EXCEPT !.pc =
                            IF imported.ret = "None" THEN "status" ELSE "raised"] >>
        /\ UNCHANGED ledger_vars_but_threads

\* Client.work: status = self.get_server_status() and the two tests on it
worker_status ==
    /\ threads[1].pc = "status"
    /\ threads' = << [pc |-> IF Len(chain) > Len(cand) THEN "register_new_block"
                             ELSE IF status = "stop" THEN "done" ELSE "status",
                      length |-> Len(chain), status |-> status] >>
    /\ UNCHANGED <<cand, cand_result>>
    /\ UNCHANGED ledger_vars_but_threads

\* Client.register_new_block: the coordinator's last block, as it is now, is
\* fetched and handed to add_block of the local chain
worker_register_new_block ==
    LET block_data == Last(chain)
        block  == Block(block_data.index, block_data.options,
                        block_data.timestamp, block_data.previous_hash,
                        block_data.nonce)
        if_add == add_block(cand, lists, block, block_data.hash)
    IN  /\ threads[1].pc = "register_new_block"
        /\ cand' = if_add.chain
        /\ cand_result' = IF if_add.ret = "True" THEN "None" ELSE "Exception"
        /\ threads' = << [threads[1] EXCEPT !.pc =
                            IF if_add.ret # "True" THEN "raised"
                            ELSE IF threads[1].status = "stop" THEN "done"
                            ELSE "status"] >>
        /\ UNCHANGED ledger_vars_but_threads

NextWorker ==
    \/ \E body \in ProposalBodies : n_accepted < MaxSubmits /\ new_option(body)
    \/ \E elapsed \in {0, 1} : renew_global_option(elapsed)
    \/ worker_register_node
    \/ worker_status
    \/ worker_register_new_block

SpecWorker == InitWorker /\ [][NextWorker]_vars

\* ch is the beginning of the coordinator's chain
IsPrefixOfChain(ch) ==
    /\ Len(ch) <= Len(chain)
    /\ \A i \in 1 .. Len(ch) : ch[i] = chain[i]

\* C27: whenever the worker has seen the coordinator's chain longer than its
\* local copy, by one block or by several, register_new_block appends the
\* fetched block, 'The block is broken!' is never raised, and the local chain
\* stays a prefix of the coordinator's.
C27_CatchUpSucceeds ==
    [][ (threads[1].pc = "register_new_block" /\ threads'[1] # threads[1]) =>
          /\ cand_result' # "Exception"
          /\ Len(cand') = Len(cand) + 1
          /\ IsPrefixOfChain(cand')
      ]_vars

---------------------------------------------------------------------------
(* The state of the coordinator after the stop.                             *)

\* C28: when the termination check after a round finds a reason, the state
\* becomes 'stop'; and no request sets the state 'stop' back to 'receiving'.
C28_StopIsAbsorbing ==
    [][ /\ (/\ last'.op = "global_option"
            /\ iterate_runs' = iterate_runs + 1
            /\ solver'.termination_signal # "NO_TERMINATION")
           => status' = "stop"
        /\ status = "stop" => status' = "stop"
      ]_vars

\* a round has ended with a reason, and a later submission was accepted in
\* the state 'stop'
C28_Witness ==
    /\ status = "stop"
    /\ iterate_runs >= 1
    /\ solver.termination_signal = "MAX_RUNTIME"
    /\ last.op = "new_option" /\ last.ret = 201

---------------------------------------------------------------------------
(* Requests after the stop, with proposals that differ in their solution.   *)

\* proposals with one of two solutions
FinalBodies ==
    [kind : {"proposal"}, node_address : NodeIds, x : {1, 2}, runtime : Runtimes]

NextFinal ==
    \/ \E body \in FinalBodies : n_accepted < MaxSubmits /\ new_option(body)
    \/ \E elapsed \in {0, 1} : renew_global_option(elapsed)

SpecFinal == Init /\ [][NextFinal]_vars

\* GET /final_answer
get_final_answer(sol) == [x |-> sol.best_so_far_x, y |-> sol.best_so_far_y]

\* C29: once the state is 'stop', the final answer (solution, quality) never
\* changes, whatever is submitted or pulled afterwards.
C29_FinalAnswerFixed ==
    [][ status = "stop" => get_final_answer(solver') = get_final_answer(solver) ]_vars

---------------------------------------------------------------------------
(* Round after round: the workers submit, with long and short runtimes, and *)
(* pull; a pull that is possible is made sooner or later.                   *)

\* submissions the model lets the coordinator accept over the rounds
MaxRoundSubmits == 2 * n_islands

RoundBodies == {[FullBody EXCEPT !.runtime = runtime] : runtime \in Runtimes}

round_submit ==
    \E body \in RoundBodies : n_accepted < MaxRoundSubmits /\ new_option(body)

round_pull == \E elapsed \in {0, 1} : renew_global_option(elapsed)

NextRounds == round_submit \/ round_pull

\* the step of NextRounds that completes a round: a pull that finds the quorum
\* and whose renew_factors has a row for every pending proposal
round_close ==
    /\ quorum_reached(lists[current_options])
    /\ Len(lists[current_options]) <= n_islands
    /\ Len(renew_log) < MaxRenews
    /\ iterate_runs' = iterate_runs + 1

\* the workers pull at every pass of their loop: a round that a pull can
\* complete is completed
SpecRounds == Init /\ [][NextRounds]_vars /\ WF_iterate_runs(round_close)

\* ceil(max_runtime / island_max_runtime), max_runtime being the adjusted cap
RoundsToStop == (max_runtime + island_max_runtime - 1) \div island_max_runtime

\* C30: every completed round adds at least island_max_runtime to the
\* accounted runtime, the state is 'stop' once RoundsToStop rounds have
\* completed, and if the quorum keeps being reached the coordinator
\* eventually is in the state 'stop'.
C30_QuorumLeadsToStop ==
    /\ [][ iterate_runs' = iterate_runs + 1 =>
             solver'.runtime >= solver.runtime + island_max_runtime ]_vars
    /\ [](iterate_runs >= RoundsToStop => status = "stop")
    /\ ([]<>quorum_reached(lists[current_options])) => <>(status = "stop")

---------------------------------------------------------------------------
(* The elite recombination of iterate on a solver built for any island      *)
(* count, one pass at a time.  threads[1] holds the locals of iterate: k,   *)
(* order, the weights and the sums so far, and whether order[k] raised.     *)

\* the largest island count the solver is built for
MaxEliteIslands == 30

EliteIslandCounts == 1 .. MaxEliteIslands

\* int(np.maximum(5, self.n_islands / 5)) for n islands
better_islands(n) == Max(5, n \div 5)

\* self._dw for six elite islands, in hundredths
DwSix == << 40, 25, 17, 10, 6, 2 >>

\* self._dw for nb elite islands, positions from 0
dw(nb) == IF nb = 5 THEN [k \in 0 .. 4 |-> Dw[k + 1]]
          ELSE [k \in 0 .. 5 |-> DwSix[k + 1]]

\* np.argsort(self.best_y) when the n islands rank by number, against it, and
\* in a rotation
EliteOrders(n) ==
    { [k \in 0 .. n - 1 |-> k],
      [k \in 0 .. n - 1 |-> n - 1 - k],
      [k \in 0 .. n - 1 |-> (k + 3) % n] }

InitElite ==
    /\ lists = << << >>, << >> >>
    /\ current_options = 1
    /\ chain = create_genesis_block(<< >>, << << >>, << >> >>, 2, 0)
    /\ clock = 1
    /\ global_options = get_options(solver_init)
    /\ status = "receiving"
    /\ last = [op |-> "start", ret |-> "None"]
    /\ n_accepted = 0
    /\ n_external = 0
    /\ renew_log = << >>
    /\ iterate_runs = 0
    /\ round_subs = << >>
    /\ \E n \in EliteIslandCounts :
         /\ solver = [solver_init EXCEPT
                        !.best_x = [j \in 0 .. n - 1 |-> j + 1],
                        !.best_y = [j \in 0 .. n - 1 |-> Fitness(j + 1)],
                        !.s = [j \in 0 .. n - 1 |-> j],
                        !.tm = [j \in 0 .. n - 1 |-> 2 * j],
                        !.c_s = [j \in 0 .. n - 1 |-> 26 + j],
                        !.sigmas = [j \in 0 .. n - 1 |-> 30 + j]]
         /\ \E order \in EliteOrders(n) :
              threads = << [k |-> 0, n_islands |-> n,
                            n_better_islands |-> better_islands(n),
                            dw |-> dw(better_islands(n)), order |-> order,
                            w_x |-> 0, w_s |-> 0, w_tm |-> 0, w_c_s |-> 0,
                            w_sigma |-> 0, raised |-> FALSE] >>
    /\ cand = << >>
    /\ cand_result = "none"
    /\ inner_nodes = {}
    /\ snapshots = {published(get_options(solver_init), solver_init)}

\* one pass of `for k in range(self.n_better_islands)`: order[k] raises
\* IndexError when k is not a position of order
elite_pass ==
    LET loc == threads[1]
    IN  /\ ~ loc.raised
        /\ loc.k < loc.n_better_islands
        /\ threads' =
             IF loc.k \notin DOMAIN loc.order
             THEN << [loc EXCEPT !.raised = TRUE] >>
             ELSE LET index == loc.order[loc.k]
                  IN  << [loc EXCEPT
                            !.k = @ + 1,
                            !.w_x = @ + loc.dw[loc.k] * solver.best_x[index],
                            !.w_s = @ + loc.dw[loc.k] * solver.s[index],
                            !.w_tm = @ + loc.dw[loc.k] * solver.tm[index],
                            !.w_c_s = @ + loc.dw[loc.k] * solver.c_s[index],
                            !.w_sigma = @ + loc.dw[loc.k] * solver.sigmas[index]] >>
        /\ UNCHANGED <<chain, current_options, global_options, lists, status,
                       solver, clock, last, n_accepted, n_external, renew_log,
                       iterate_runs, round_subs, cand, cand_result, inner_nodes,
                       snapshots>>

NextElite == elite_pass

SpecElite == InitElite /\ [][NextElite]_vars

\* C31: whatever the island count, the elite count does not exceed it, every
\* island the recombination reads is an island of the solver, and the loop
\* never raises.
C31_EliteWithinIslands ==
    LET loc == threads[1]
    IN  /\ loc.n_better_islands <= loc.n_islands
        /\ loc.k <= loc.n_islands
        /\ ~ loc.raised

=============================================================================
